---- MODULE Spec2Model ----
\* dev-report: a model of the multi-repository analysis pipeline
\* (src/dev_report/cli.py, git_stats.py, github_prs.py).
\*
\* Three specifications share the module:
\*   SpecAnalyze  analyze_repo as a function of the repository state, plus the
\*                window filter of main applied to its result;
\*   SpecThreads  several threads calling fetch_prs directly and concurrently;
\*   Spec         a full run of main.
\*
\* Timestamps are whole hours.  Strings that the code transforms (e-mail
\* addresses, commit hashes) are sequences of one-character strings.
EXTENDS Integers, Sequences, FiniteSets, TLC

\* ---------------------------------------------------------------------------
\* Bounds
\* ---------------------------------------------------------------------------
MaxCommits == 2      \* longest history drawn from CommitPool
MaxRepos == 2        \* most repositories find_repos discovers
MaxThreads == 2      \* most threads calling fetch_prs concurrently

\* ---------------------------------------------------------------------------
\* Values
\* ---------------------------------------------------------------------------
None == "None"

Now == 800

PeriodDaily == [name |-> "Last 24 Hours", since |-> Now - 24]

PeriodWeekly == [name |-> "Last 7 Days", since |-> Now - 7 * 24]

PeriodMonthly == [name |-> "Last 30 Days", since |-> Now - 30 * 24]

\* get_periods(args): one period per flag, all three without a flag.
get_periods(args) ==
  LET all_periods == << PeriodDaily, PeriodWeekly, PeriodMonthly >>
  IN  IF args = "daily" THEN << all_periods[1] >>
      ELSE IF args = "weekly" THEN << all_periods[2] >>
      ELSE IF args = "monthly" THEN << all_periods[3] >>
      ELSE all_periods

ArgChoices == {"daily", "weekly", "monthly", "all"}

SeqToSet(s) == {s[i] : i \in 1..Len(s)}

RECURSIVE SeqMin(_)
SeqMin(s) ==
  IF Len(s) = 1 THEN s[1]
  ELSE LET m == SeqMin(Tail(s)) IN IF s[1] <= m THEN s[1] ELSE m

\* earliest_since = min(since for _, since in periods)
EarliestSince(periods) == SeqMin([i \in 1..Len(periods) |-> periods[i].since])

\* str.lower() on the characters the model uses.
LowerChar(ch) ==
  CASE ch = "A" -> "a"
    [] ch = "B" -> "b"
    [] ch = "X" -> "x"
    [] OTHER -> ch

Lower(s) == [i \in 1..Len(s) |-> LowerChar(s[i])]

\* s[:n]
Take(s, n) == SubSeq(s, 1, IF Len(s) < n THEN Len(s) ELSE n)

InList(x, list) == \E i \in 1..Len(list) : list[i] = x

\* Paths are sequences of segments; Path.name is the last one.
PathName(path) == path[Len(path)]

PathNames == << "r1", "r2", "r3", "r4", "r5", "r6", "r7", "r8", "r9" >>

RepoPath(i) == << "w", PathNames[i] >>

\* E-mail addresses.
EmailA == << "a", "@", "x" >>

EmailAUpper == << "A", "@", "X" >>

EmailB == << "b", "@", "x" >>

NoEmail == << >>

\* A commit as the history walk hands it over: hexsha, author.email,
\* authored_date, and commit.stats.total (stats_ok = FALSE: reading it raises).
RawCommit(id, email, date, ins, del, files, ok) ==
  [hexsha |-> << "c", id >>, email |-> email, authored_date |-> date,
   insertions |-> ins, deletions |-> del, files |-> files, stats_ok |-> ok]

CommitPool ==
  { RawCommit("1", EmailA, Now - 2, 3, 1, 2, TRUE),
    RawCommit("2", EmailAUpper, Now - 30, 5, 0, 1, TRUE),
    RawCommit("3", EmailB, Now - 24, 2, 2, 1, TRUE),
    RawCommit("4", EmailB, Now - 200, 1, 1, 1, FALSE),
    RawCommit("5", EmailA, Now - 721, 4, 4, 4, TRUE),
    RawCommit("6", NoEmail, Now - 3, 1, 0, 1, TRUE) }

\* The scenario of the specification: three commits of a@x and two of b@x.
ScenarioHistory ==
  << RawCommit("s1", EmailB, Now - 1, 1, 0, 1, TRUE),
     RawCommit("s2", EmailA, Now - 2, 1, 0, 1, TRUE),
     RawCommit("s3", EmailA, Now - 30, 1, 0, 1, TRUE),
     RawCommit("s4", EmailB, Now - 72, 1, 0, 1, TRUE),
     RawCommit("s5", EmailA, Now - 240, 1, 0, 1, TRUE) >>

\* Histories of at most n commits of the pool.
RECURSIVE HistoriesUpTo(_)
HistoriesUpTo(n) ==
  IF n = 0 THEN { << >> }
  ELSE LET shorter == HistoriesUpTo(n - 1)
       IN  shorter \cup { Append(h, c) : h \in shorter, c \in CommitPool }

\* A history holds a commit once.
Histories == { h \in HistoriesUpTo(MaxCommits) :
                 \A i, j \in 1..Len(h) : i # j => h[i] # h[j] } \cup { ScenarioHistory }

AuthorEmailLists == { << >>, << EmailA >>, << EmailAUpper >>, << EmailB, EmailA >> }

\* ---------------------------------------------------------------------------
\* git_stats.py
\* ---------------------------------------------------------------------------
\* get_commit_stats: zeros when reading the stats raises.
get_commit_stats(commit) ==
  IF commit.stats_ok
  THEN << commit.insertions, commit.deletions, commit.files >>
  ELSE << 0, 0, 0 >>

CommitInfo(commit) ==
  LET st == get_commit_stats(commit)
  IN  [sha |-> Take(commit.hexsha, 8),
       author_email |-> commit.email,
       authored_date |-> commit.authored_date,
       lines_added |-> st[1], lines_removed |-> st[2], files_changed |-> st[3]]

\* repo.iter_commits(since=...): the commits of the history authored at or
\* after since, in history order, and possibly some older ones (extra), the
\* filter of the walk being approximate.
IterCommits(history, since, extra) ==
  LET keep == { i \in 1..Len(history) :
                  history[i].authored_date >= since \/ i \in extra }
      F[i \in 0..Len(history)] ==
        IF i = 0 THEN << >>
        ELSE IF i \in keep THEN Append(F[i - 1], history[i]) ELSE F[i - 1]
  IN  F[Len(history)]

\* WalkLoop without the re-check of the timestamp (lines 96-98 left out).
RECURSIVE WalkLoopNoRecheck(_, _, _, _, _)
WalkLoopNoRecheck(yielded, i, author_emails_lower, since, commits) ==
  IF i > Len(yielded) THEN commits
  ELSE
    LET commit == yielded[i]
        commit_email == IF commit.email # << >> THEN Lower(commit.email) ELSE << >>
    IN  IF author_emails_lower # << >> /\ ~InList(commit_email, author_emails_lower)
        THEN WalkLoopNoRecheck(yielded, i + 1, author_emails_lower, since, commits)
        ELSE WalkLoopNoRecheck(yielded, i + 1, author_emails_lower, since,
                               Append(commits, CommitInfo(commit)))

\* WalkLoop comparing the e-mail of the commit as written (no .lower()).
RECURSIVE WalkLoopCaseSensitive(_, _, _, _, _)
WalkLoopCaseSensitive(yielded, i, author_emails_lower, since, commits) ==
  IF i > Len(yielded) THEN commits
  ELSE
    LET commit == yielded[i]
        commit_email == commit.email
    IN  IF author_emails_lower # << >> /\ ~InList(commit_email, author_emails_lower)
        THEN WalkLoopCaseSensitive(yielded, i + 1, author_emails_lower, since, commits)
        ELSE IF commit.authored_date < since
        THEN WalkLoopCaseSensitive(yielded, i + 1, author_emails_lower, since, commits)
        ELSE WalkLoopCaseSensitive(yielded, i + 1, author_emails_lower, since,
                                   Append(commits, CommitInfo(commit)))

\* The loop body of analyze_repo over the commits the walk yielded.
RECURSIVE WalkLoop(_, _, _, _, _)
WalkLoop(yielded, i, author_emails_lower, since, commits) ==
  IF i > Len(yielded) THEN commits
  ELSE
    LET commit == yielded[i]
        commit_email == IF commit.email # << >> THEN Lower(commit.email) ELSE << >>
    IN  IF author_emails_lower # << >> /\ ~InList(commit_email, author_emails_lower)
        THEN WalkLoop(yielded, i + 1, author_emails_lower, since, commits)
        ELSE IF commit.authored_date < since
        THEN WalkLoop(yielded, i + 1, author_emails_lower, since, commits)
        ELSE WalkLoop(yielded, i + 1, author_emails_lower, since,
                      Append(commits, CommitInfo(commit)))

RepoStats(path, commits, error) ==
  [path |-> path, name |-> PathName(path), commits |-> commits, error |-> error]

Return(v) == [kind |-> "return", value |-> v]

Raise(e) == [kind |-> "raise", exc |-> e]

Unset == [kind |-> "unset"]

OpenOutcomes == {"ok", "invalid", "bare", "other_error"}

\* analyze_repo without the test of repo.bare (lines 74-76 left out).
analyze_repoNoBareCheck(repo_path, open, walk, author_emails, since) ==
  IF open = "invalid"
  THEN Return(RepoStats(repo_path, << >>, "Not a valid git repository"))
  ELSE IF open = "other_error"
  THEN Raise("NoSuchPathError")
  ELSE
    LET author_emails_lower == [i \in 1..Len(author_emails) |-> Lower(author_emails[i])]
        commits == WalkLoop(walk.yielded, 1, author_emails_lower, since, << >>)
    IN  Return(RepoStats(repo_path, commits,
                         IF walk.raised THEN "walk failed" ELSE None))

\* analyze_repo.  open is what Repo(repo_path) does; walk.yielded are the
\* commits the iterator handed over and walk.raised tells whether it then
\* raised instead of ending.
analyze_repo(repo_path, open, walk, author_emails, since) ==
  IF open = "invalid"
  THEN Return(RepoStats(repo_path, << >>, "Not a valid git repository"))
  ELSE IF open = "other_error"
  THEN Raise("NoSuchPathError")
  ELSE IF open = "bare"
  THEN Return(RepoStats(repo_path, << >>, "Bare repository"))
  ELSE
    LET author_emails_lower == [i \in 1..Len(author_emails) |-> Lower(author_emails[i])]
        commits == WalkLoop(walk.yielded, 1, author_emails_lower, since, << >>)
    IN  Return(RepoStats(repo_path, commits,
                         IF walk.raised THEN "walk failed" ELSE None))

\* ---------------------------------------------------------------------------
\* github_prs.py
\* ---------------------------------------------------------------------------
GhWarning == "gh CLI not available or not authenticated - PR stats will be skipped"

RepoPRs(path, name, owner, opened, merged, error) ==
  [repo_path |-> path, repo_name |-> name, owner |-> owner,
   prs_opened |-> opened, prs_merged |-> merged, error |-> error]

\* A remote URL: its shape (ssh: git@github.com:owner/repo, https:
\* https://github.com/owner/repo, other: neither), owner, repository name
\* and whether it ends in ".git".
RemoteUrl(shape, owner, name, dotgit) ==
  [shape |-> shape, owner |-> owner, name |-> name, dotgit |-> dotgit]

\* What get_github_remote finds at the path: Repo() raising
\* InvalidGitRepositoryError ("invalid") or another error ("other_error"), or
\* the list of remote URLs.
RemoteStates ==
  { [open |-> "invalid", remotes |-> << >>],
    [open |-> "other_error", remotes |-> << >>],
    [open |-> "ok", remotes |-> << >>],
    [open |-> "ok", remotes |-> << RemoteUrl("other", "gitlab", "w", TRUE) >>],
    [open |-> "ok", remotes |-> << RemoteUrl("other", "gitlab", "w", TRUE),
                                   RemoteUrl("ssh", "acme", "widgets", TRUE) >>],
    [open |-> "ok", remotes |-> << RemoteUrl("https", "acme", "widgets", FALSE),
                                   RemoteUrl("ssh", "other", "fork", TRUE) >>] }

\* get_github_remote returning None.
NoRemote == [found |-> FALSE]

\* The loop of get_github_remote: the first remote of either shape wins.
RECURSIVE FirstGithubRemote(_, _)
FirstGithubRemote(remotes, i) ==
  IF i > Len(remotes) THEN NoRemote
  ELSE IF remotes[i].shape = "ssh"
  THEN [found |-> TRUE, owner |-> remotes[i].owner, name |-> remotes[i].name]
  ELSE IF remotes[i].shape = "https"
  THEN [found |-> TRUE, owner |-> remotes[i].owner, name |-> remotes[i].name]
  ELSE FirstGithubRemote(remotes, i + 1)

get_github_remote(rs) ==
  IF rs.open = "invalid" THEN Return(NoRemote)
  ELSE IF rs.open = "other_error" THEN Raise("NoSuchPathError")
  ELSE Return(FirstGithubRemote(rs.remotes, 1))

\* Timestamps of the JSON output: an hour with the suffix "Z" or "+00:00".
Stamp(hour, suffix) == [kind |-> "stamp", hour |-> hour, suffix |-> suffix]

\* A string that is no timestamp, a key that is absent, and JSON null.
BadStamp == [kind |-> "bad"]

Missing == [kind |-> "missing"]

Null == [kind |-> "null"]

\* merged_at = None of a PRInfo.
NoTime == -1

\* parse_datetime: "Z" becomes "+00:00", then datetime.fromisoformat.
parse_datetime(dt_str) ==
  IF dt_str = BadStamp THEN Raise("ValueError")
  ELSE LET replaced == [dt_str EXCEPT !.suffix = IF @ = "Z" THEN "+00:00" ELSE @]
       IN  Return(replaced.hour)

PrEntry(number, title, createdAt, mergedAt) ==
  [number |-> number, title |-> title, state |-> "OPEN",
   createdAt |-> createdAt, mergedAt |-> mergedAt, url |-> << "u", number >>]

PrOpenedOnly == PrEntry("1", << "t", "1" >>, Stamp(Now - 2, "Z"), Null)

PrMergedOnly == PrEntry("2", << "t", "2" >>, Stamp(Now - 800, "Z"), Stamp(Now - 30, "+00:00"))

PrBoth == PrEntry("3", << "t", "3" >>, Stamp(Now - 100, "+00:00"), Stamp(Now - 20, "Z"))

PrOld == PrEntry("4", << "t", "4" >>, Stamp(Now - 900, "Z"), Stamp(Now - 850, "Z"))

PrNoCreatedAt == PrEntry("5", << "t", "5" >>, Missing, Null)

PrBadMergedAt == PrEntry("6", << "t", "6" >>, Stamp(Now - 3, "Z"), BadStamp)

\* What `gh pr list` does: its return code, whether json.loads accepts its
\* standard output, and the list json.loads returns (empty for an empty
\* output).
GhOutput(rc, valid, prs_data) ==
  [returncode |-> rc, valid_json |-> valid, prs_data |-> prs_data]

GhOutputs ==
  { GhOutput(1, TRUE, << >>),
    GhOutput(0, FALSE, << >>),
    GhOutput(0, TRUE, << >>),
    GhOutput(0, TRUE, << PrOpenedOnly, PrMergedOnly, PrBoth, PrOld >>),
    GhOutput(0, TRUE, << PrBoth, PrNoCreatedAt, PrOpenedOnly >>),
    GhOutput(0, TRUE, << PrMergedOnly, PrBadMergedAt >>),
    GhOutput(0, TRUE, << PrBadMergedAt, PrBoth >>) }

PRInfo(pr, created_at, merged_at) ==
  [number |-> pr.number, title |-> Take(pr.title, 80), state |-> pr.state,
   created_at |-> created_at, merged_at |-> merged_at, url |-> pr.url]

\* The for loop of fetch_prs over prs_data.  An entry that raises ends the
\* loop in the except branch: error is set, the lists stay as they are.
RECURSIVE ParseLoop(_, _, _, _)
ParseLoop(prs_data, i, since, result) ==
  IF i > Len(prs_data) THEN result
  ELSE
    LET pr == prs_data[i]
    IN  IF pr.createdAt = Missing THEN [result EXCEPT !.error = "'createdAt'"]
        ELSE
          LET created == parse_datetime(pr.createdAt)
              merged == IF pr.mergedAt # Null /\ pr.mergedAt # Missing
                        THEN parse_datetime(pr.mergedAt)
                        ELSE Return(NoTime)
          IN  IF created.kind = "raise" THEN [result EXCEPT !.error = "Invalid isoformat string"]
              ELSE IF merged.kind = "raise" THEN [result EXCEPT !.error = "Invalid isoformat string"]
              ELSE
                LET pr_info == PRInfo(pr, created.value, merged.value)
                    opened == IF created.value >= since
                              THEN Append(result.prs_opened, pr_info)
                              ELSE result.prs_opened
                    mergedl == IF merged.value # NoTime /\ merged.value >= since
                               THEN Append(result.prs_merged, pr_info)
                               ELSE result.prs_merged
                IN  ParseLoop(prs_data, i + 1, since,
                              [result EXCEPT !.prs_opened = opened, !.prs_merged = mergedl])

\* fetch_prs from line 120 on: the hosting CLI is available.
fetch_prs_available(repo_path, rs, gh, since) ==
  LET result == RepoPRs(repo_path, PathName(repo_path), "", << >>, << >>, None)
      github_info == get_github_remote(rs)
  IN  IF github_info.kind = "raise" THEN github_info
      ELSE IF ~github_info.value.found THEN Return(result)
      ELSE
        LET resolved == [result EXCEPT !.owner = github_info.value.owner,
                                       !.repo_name = github_info.value.name]
        IN  IF gh.returncode # 0
            THEN Return([resolved EXCEPT !.error = "gh error: stderr"])
            ELSE IF ~gh.valid_json
            THEN Return([resolved EXCEPT !.error = "Failed to parse gh output"])
            ELSE Return(ParseLoop(gh.prs_data, 1, since, resolved))

\* ---------------------------------------------------------------------------
\* discovery.py
\* ---------------------------------------------------------------------------
\* A Path is the sequence of its parts below the file system root.  A string
\* holding a path or a pattern is a sequence of tokens: the separator "/", "~",
\* the wildcards "*" and "**" standing as a whole part, and names.
HomeParts == << "home", "u" >>

\* os.getcwd() of the process.
CwdParts == << "home", "u" >>

\* str(path): the parts behind separators.
PathStr(parts) ==
  [i \in 1..(2 * Len(parts)) |-> IF i % 2 = 1 THEN "/" ELSE parts[i \div 2]]

\* Path(string): the parts between separators.
PathParts(str) == SelectSeq(str, LAMBDA t : t # "/")

\* expand_path: Path(path).expanduser().resolve().  "~" as first part becomes
\* the home directory; a relative path is made absolute from the working
\* directory.
expand_path(path) ==
  LET parts == PathParts(path)
  IN  IF parts # << >> /\ parts[1] = "~" THEN HomeParts \o Tail(parts)
      ELSE IF path # << >> /\ path[1] = "/" THEN parts
      ELSE CwdParts \o parts

\* fnmatch(name, pat): "*" matches any run of characters, separators
\* included; everything else matches itself; the whole name has to match.
RECURSIVE fnmatch(_, _)
fnmatch(name, pat) ==
  IF pat = << >> THEN name = << >>
  ELSE IF Head(pat) = "*"
  THEN \/ fnmatch(name, Tail(pat))
       \/ name # << >> /\ fnmatch(Tail(name), pat)
  ELSE name # << >> /\ Head(name) = Head(pat) /\ fnmatch(Tail(name), Tail(pat))

\* matches_pattern: the pattern is expanded, "**" replaced by "*", and the
\* string of the path matched against it.
matches_pattern(path, pattern) ==
  LET pattern_expanded == PathStr(expand_path(pattern))
      path_str == PathStr(path)
      replaced == [i \in 1..Len(pattern_expanded) |->
                     IF pattern_expanded[i] = "**" THEN "*" ELSE pattern_expanded[i]]
  IN  fnmatch(path_str, replaced)

Config(include, exclude) == [include |-> include, exclude |-> exclude]

\* The body of the loop of find_repos for one .git entry: TRUE when the parent
\* directory is appended to repos.
FindKeeps(git_dir, config) ==
  /\ git_dir.is_dir
  /\ config.include # << >> =>
       \E i \in 1..Len(config.include) : matches_pattern(git_dir.parent, config.include[i])
  /\ config.exclude # << >> =>
       ~\E i \in 1..Len(config.exclude) : matches_pattern(git_dir.parent, config.exclude[i])

\* The order of strings, for the names that occur in paths.
NameOrder == << "active", "archived", "home", "old-proj", "proj", "sub", "u", "work" >>

NameRank(name) == CHOOSE i \in 1..Len(NameOrder) : NameOrder[i] = name

\* Path.__lt__: the parts compared as lists.
RECURSIVE PathLess(_, _)
PathLess(a, b) ==
  IF b = << >> THEN FALSE
  ELSE IF a = << >> THEN TRUE
  ELSE IF Head(a) # Head(b) THEN NameRank(Head(a)) < NameRank(Head(b))
  ELSE PathLess(Tail(a), Tail(b))

\* sorted(repos).
RECURSIVE sorted(_)
sorted(list) ==
  IF list = << >> THEN << >>
  ELSE LET rest == sorted(Tail(list))
           before == SelectSeq(rest, LAMBDA x : ~PathLess(Head(list), x))
           after == SelectSeq(rest, LAMBDA x : PathLess(Head(list), x))
       IN  before \o << Head(list) >> \o after

\* ---------------------------------------------------------------------------
\* cli.py: the window filters of main
\* ---------------------------------------------------------------------------
\* FilterCommits with the comparison turned round.
FilterCommitsReversed(commits, since) ==
  SelectSeq(commits, LAMBDA c : c.authored_date <= since)

FilterCommits(commits, since) ==
  SelectSeq(commits, LAMBDA c : c.authored_date >= since)

FilterOpened(prs_opened, since) ==
  SelectSeq(prs_opened, LAMBDA p : p.created_at >= since)

\* FilterMerged deciding by the creation time.
FilterMergedByCreated(prs_merged, since) ==
  SelectSeq(prs_merged, LAMBDA p : p.created_at >= since)

FilterMerged(prs_merged, since) ==
  SelectSeq(prs_merged, LAMBDA p : p.merged_at # NoTime /\ p.merged_at >= since)

\* The body of the loop over periods building the filtered RepoStats without
\* handing over the error.
PeriodStatsDroppingError(period, all_stats, all_prs) ==
  [name |-> period.name,
   repo_stats |-> [k \in 1..Len(all_stats) |->
                     [all_stats[k] EXCEPT !.commits = FilterCommits(@, period.since),
                                          !.error = None]],
   repo_prs |-> [k \in 1..Len(all_prs) |->
                   [all_prs[k] EXCEPT !.prs_opened = FilterOpened(@, period.since),
                                      !.prs_merged = FilterMerged(@, period.since)]]]

\* The body of the loop over periods (lines 180-209).
PeriodStats(period, all_stats, all_prs) ==
  [name |-> period.name,
   repo_stats |-> [k \in 1..Len(all_stats) |->
                     [all_stats[k] EXCEPT !.commits = FilterCommits(@, period.since)]],
   repo_prs |-> [k \in 1..Len(all_prs) |->
                   [all_prs[k] EXCEPT !.prs_opened = FilterOpened(@, period.since),
                                      !.prs_merged = FilterMerged(@, period.since)]]]

\* sum(c.<field> for c in commits).
RECURSIVE SumField(_, _)
SumField(commits, field) ==
  IF commits = << >> THEN 0
  ELSE Head(commits)[field] + SumField(Tail(commits), field)

\* The properties lines_added, lines_removed and files_changed of RepoStats.
RepoTotal(stats, field) == SumField(stats.commits, field)

\* The properties of PeriodStats summing over the repositories without an
\* error only.
RECURSIVE PeriodTotalSkippingErrors(_, _)
PeriodTotalSkippingErrors(period, field) ==
  IF period.repo_stats = << >> THEN 0
  ELSE (IF Head(period.repo_stats).error = None
        THEN RepoTotal(Head(period.repo_stats), field) ELSE 0)
       + PeriodTotalSkippingErrors([period EXCEPT !.repo_stats = Tail(@)], field)

\* The properties lines_added, lines_removed and files_changed of
\* PeriodStats: sum(r.<field> for r in self.repo_stats).
RECURSIVE PeriodTotal(_, _)
PeriodTotal(period, field) ==
  IF period.repo_stats = << >> THEN 0
  ELSE RepoTotal(Head(period.repo_stats), field)
       + PeriodTotal([period EXCEPT !.repo_stats = Tail(@)], field)

\* The loop collecting warnings without its break: every error is appended.
RECURSIVE FirstWarningNoBreak(_, _)
FirstWarningNoBreak(all_prs, i) ==
  IF i > Len(all_prs) THEN << >>
  ELSE IF all_prs[i].error # None /\ all_prs[i].error # ""
  THEN << all_prs[i].error >> \o FirstWarningNoBreak(all_prs, i + 1)
  ELSE FirstWarningNoBreak(all_prs, i + 1)

\* The loop collecting warnings (lines 171-174): the first error, then break.
RECURSIVE FirstWarning(_, _)
FirstWarning(all_prs, i) ==
  IF i > Len(all_prs) THEN << >>
  ELSE IF all_prs[i].error # None /\ all_prs[i].error # ""
  THEN << all_prs[i].error >>
  ELSE FirstWarning(all_prs, i + 1)

\* ThreadPoolExecutor(max_workers=8) and ThreadPoolExecutor(max_workers=4).
AnalyzeWorkers == 8

FetchWorkers == 4

\* ---------------------------------------------------------------------------
\* State
\* ---------------------------------------------------------------------------
\* analyze_repo and the window filter (SpecAnalyze); author_emails and
\* earliest_since are also the author_emails and earliest_since of main.
VARIABLES history, author_emails, earliest_since, window_since,
          walkFull, full, walkDirect, direct, filtered

\* What Repo(repo_path) did in the call that produced full.
VARIABLES opened

\* The module globals of github_prs.py, what `gh auth status` answers in this
\* process (gh_status) and how often it was executed (gh_checks).
VARIABLES gh_available, gh_warning_shown, gh_status, gh_checks

\* Threads calling fetch_prs (SpecThreads): position, the value
\* is_gh_available returned, the result of fetch_prs, and the since argument.
VARIABLES thPc, thAvail, thResult, thSince, thInput

\* find_repos (SpecFind): the .git entries below the root, the configuration,
\* the position of the call, the entries rglob has not yielded yet, the local
\* list repos, and the returned list.
VARIABLES fs_git, config, findPc, todo, found, find_result

findVars == << fs_git, config, findPc, todo, found, find_result >>

anVars == << history, author_emails, earliest_since, window_since,
             walkFull, full, walkDirect, direct, filtered, opened >>

ghVars == << gh_available, gh_warning_shown, gh_status, gh_checks >>

thVars == << thPc, thAvail, thResult, thSince, thInput >>

\* A run of main (Spec): the discovered repositories, the periods, the position
\* of the main thread, the tasks of the two pools (status, result, completion
\* queue), the collected lists, and what render_report received.  calls
\* records every call of analyze_repo and fetch_prs with its since argument.
VARIABLES repos, periods, mainPc, aStatus, aResult, aDone, all_repo_stats,
          fStatus, fResult, fDone, all_repo_prs, warnings, period_stats,
          rendered, calls

\* The surroundings of a run of main: env holds what the workers can find at a
\* repository during the run (repo_states for analyze_repo, fetch_states for
\* fetch_prs), fInput what the fetch worker of each repository did find.
VARIABLES env, fInput

inVars == << env, fInput >>

mainVars == << repos, periods, mainPc, aStatus, aResult, aDone, all_repo_stats,
               fStatus, fResult, fDone, all_repo_prs, warnings, period_stats,
               rendered, calls, inVars >>

vars == << anVars, ghVars, thVars, mainVars, findVars >>

MainIdle ==
  /\ repos = << >> /\ periods = << >> /\ mainPc = "idle"
  /\ aStatus = << >> /\ aResult = << >> /\ aDone = << >> /\ all_repo_stats = << >>
  /\ fStatus = << >> /\ fResult = << >> /\ fDone = << >> /\ all_repo_prs = << >>
  /\ warnings = << >> /\ period_stats = << >> /\ rendered = Unset
  /\ calls = << >>
  /\ env = [repo_states |-> {}, fetch_states |-> {}] /\ fInput = << >>

NoWalk == [yielded |-> << >>, raised |-> FALSE]

BoolStr(b) == IF b THEN "True" ELSE "False"

\* The module as imported: _gh_available = None, _gh_warning_shown = False.
FindIdle ==
  /\ fs_git = {} /\ config = Config(<< >>, << >>) /\ findPc = "idle"
  /\ todo = {} /\ found = << >> /\ find_result = << >>

GhInit ==
  /\ gh_available = None
  /\ gh_warning_shown = FALSE
  /\ gh_status \in BOOLEAN
  /\ gh_checks = 0

AnIdle ==
  /\ history = << >> /\ window_since = Now
  /\ walkFull = NoWalk /\ full = Unset
  /\ walkDirect = NoWalk /\ direct = Unset
  /\ filtered = Unset /\ opened = None

Threads == 1..MaxThreads

ThIdle ==
  /\ thPc = [t \in Threads |-> "idle"]
  /\ thAvail = [t \in Threads |-> None]
  /\ thResult = [t \in Threads |-> Unset]
  /\ thSince = Now
  /\ thInput = [t \in Threads |-> Unset]

\* ---------------------------------------------------------------------------
\* SpecAnalyze
\* ---------------------------------------------------------------------------
\* The outcomes of one walk: how approximate the filter was and whether the
\* iterator raised after k commits.
Walks(h, since) ==
  UNION { LET all == IterCommits(h, since, extra)
          IN  { [yielded |-> all, raised |-> FALSE] } \cup
              { [yielded |-> SubSeq(all, 1, k), raised |-> TRUE] : k \in 0..Len(all) } :
            extra \in SUBSET (1..Len(h)) }

InitAnalyze ==
  /\ history \in Histories
  /\ author_emails \in AuthorEmailLists
  /\ \E args \in ArgChoices, w \in 1..3 :
       /\ w <= Len(get_periods(args))
       /\ earliest_since = EarliestSince(get_periods(args))
       /\ window_since = get_periods(args)[w].since
  /\ walkFull = NoWalk /\ full = Unset
  /\ walkDirect = NoWalk /\ direct = Unset
  /\ filtered = Unset /\ opened = None
  /\ GhInit /\ gh_status = TRUE
  /\ ThIdle
  /\ MainIdle
  /\ FindIdle

AnalyzeEarliest ==
  /\ full = Unset
  /\ \E open \in OpenOutcomes, walk \in Walks(history, earliest_since) :
       /\ walkFull' = (IF open = "ok" THEN walk ELSE NoWalk)
       /\ full' = analyze_repo(RepoPath(1), open, walk, author_emails, earliest_since)
       /\ opened' = open
  /\ UNCHANGED << history, author_emails, earliest_since, window_since,
                  walkDirect, direct, filtered, ghVars, thVars, mainVars, findVars >>

\* The run the single pass is compared with: analyze_repo called on the same
\* repository with since = the bound of the window.
AnalyzeDirect ==
  /\ full.kind = "return" /\ full.value.error = None
  /\ direct = Unset
  /\ \E walk \in Walks(history, window_since) :
       /\ walkDirect' = walk
       /\ direct' = analyze_repo(RepoPath(1), "ok", walk, author_emails, window_since)
  /\ UNCHANGED << history, author_emails, earliest_since, window_since, opened,
                  walkFull, full, filtered, ghVars, thVars, mainVars, findVars >>

FilterWindow ==
  /\ full.kind = "return"
  /\ filtered = Unset
  /\ filtered' = Return(FilterCommits(full.value.commits, window_since))
  /\ UNCHANGED << history, author_emails, earliest_since, window_since, opened,
                  walkFull, full, walkDirect, direct, ghVars, thVars, mainVars, findVars >>

NextAnalyze == AnalyzeEarliest \/ AnalyzeDirect \/ FilterWindow

SpecAnalyze == InitAnalyze /\ [][NextAnalyze]_vars

\* ---------------------------------------------------------------------------
\* SpecThreads: threads calling fetch_prs concurrently
\* ---------------------------------------------------------------------------
InitThreads ==
  /\ GhInit
  /\ thPc = [t \in Threads |-> "idle"]
  /\ thAvail = [t \in Threads |-> None]
  /\ thResult = [t \in Threads |-> Unset]
  /\ thInput = [t \in Threads |-> Unset]
  /\ thSince \in { PeriodDaily.since, PeriodWeekly.since, PeriodMonthly.since }
  /\ AnIdle /\ author_emails = << >> /\ earliest_since = Now
  /\ MainIdle
  /\ FindIdle

\* fetch_prs is entered and is_gh_available tests the memoized value
\* (lines 108-116 and 46-47).
IsGhTest(t) ==
  /\ thPc[t] = "idle"
  /\ thPc' = [thPc EXCEPT ![t] = IF gh_available # None THEN "gh_return" ELSE "gh_run"]
  /\ UNCHANGED << findVars, mainVars, anVars, ghVars, thAvail, thResult, thSince, thInput >>

\* `gh auth status` is run and its outcome stored (lines 49-57).
IsGhRun(t) ==
  /\ thPc[t] = "gh_run"
  /\ gh_checks' = gh_checks + 1
  /\ gh_available' = BoolStr(gh_status)
  /\ thPc' = [thPc EXCEPT ![t] = "gh_return"]
  /\ UNCHANGED << findVars, mainVars, anVars, gh_warning_shown, gh_status, thAvail, thResult, thSince, thInput >>

\* is_gh_available returns the global; fetch_prs branches on it (line 116).
IsGhReturn(t) ==
  /\ thPc[t] = "gh_return"
  /\ thAvail' = [thAvail EXCEPT ![t] = gh_available]
  /\ thPc' = [thPc EXCEPT ![t] = IF gh_available = "True" THEN "fetch" ELSE "warn_test"]
  /\ UNCHANGED << findVars, mainVars, anVars, ghVars, thResult, thSince, thInput >>

EmptyPRs(repo_path, error) ==
  RepoPRs(repo_path, PathName(repo_path), "", << >>, << >>, error)

\* show_gh_warning tests the latch (lines 66-67).
WarnTest(t) ==
  /\ thPc[t] = "warn_test"
  /\ IF gh_warning_shown
     THEN /\ thResult' = [thResult EXCEPT ![t] = Return(EmptyPRs(RepoPath(t), None))]
          /\ thPc' = [thPc EXCEPT ![t] = "done"]
     ELSE /\ thPc' = [thPc EXCEPT ![t] = "warn_set"]
          /\ UNCHANGED thResult
  /\ UNCHANGED << findVars, mainVars, anVars, ghVars, thAvail, thSince, thInput >>

\* show_gh_warning returning the warning without setting the latch.
WarnSetNoLatch(t) ==
  /\ thPc[t] = "warn_set"
  /\ thResult' = [thResult EXCEPT ![t] = Return(EmptyPRs(RepoPath(t), GhWarning))]
  /\ thPc' = [thPc EXCEPT ![t] = "done"]
  /\ UNCHANGED << findVars, mainVars, anVars, ghVars, thAvail, thSince, thInput >>

\* show_gh_warning sets the latch and returns the warning (lines 69-70).
WarnSet(t) ==
  /\ thPc[t] = "warn_set"
  /\ gh_warning_shown' = TRUE
  /\ thResult' = [thResult EXCEPT ![t] = Return(EmptyPRs(RepoPath(t), GhWarning))]
  /\ thPc' = [thPc EXCEPT ![t] = "done"]
  /\ UNCHANGED << findVars, mainVars, anVars, gh_available, gh_status, gh_checks, thAvail, thSince, thInput >>

\* The rest of fetch_prs (lines 120-173).
FetchBody(t) ==
  /\ thPc[t] = "fetch"
  /\ \E rs \in RemoteStates, gh \in GhOutputs :
       /\ thInput' = [thInput EXCEPT ![t] = [kind |-> "input", rs |-> rs, gh |-> gh]]
       /\ thResult' = [thResult EXCEPT ![t] = fetch_prs_available(RepoPath(t), rs, gh, thSince)]
  /\ thPc' = [thPc EXCEPT ![t] = "done"]
  /\ UNCHANGED << findVars, mainVars, anVars, ghVars, thAvail, thSince >>

NextThreads ==
  \E t \in Threads :
    \/ IsGhTest(t)
    \/ IsGhRun(t)
    \/ IsGhReturn(t)
    \/ WarnTest(t)
    \/ WarnSet(t)
    \/ FetchBody(t)

SpecThreads ==
  InitThreads /\ [][NextThreads]_vars

\* ---------------------------------------------------------------------------
\* SpecSequential: calls of fetch_prs made one after the other
\* ---------------------------------------------------------------------------
\* Call t is made after the calls before it have returned.
InTurn(t) == \A u \in 1..(t - 1) : thPc[u] = "done"

NextSequential ==
  \E t \in Threads :
    \/ InTurn(t) /\ IsGhTest(t)
    \/ InTurn(t) /\ IsGhRun(t)
    \/ InTurn(t) /\ IsGhReturn(t)
    \/ InTurn(t) /\ WarnTest(t)
    \/ InTurn(t) /\ WarnSet(t)
    \/ InTurn(t) /\ FetchBody(t)

SpecSequential ==
  InitThreads /\ [][NextSequential]_vars

\* ---------------------------------------------------------------------------
\* SpecFind: a call of find_repos
\* ---------------------------------------------------------------------------
WorkParts == HomeParts \o << "work" >>

GitEntry(parent, is_dir) == [parent |-> parent, is_dir |-> is_dir]

\* The .git entries that can lie below the root ~/work; a .git that is a file
\* (a submodule or a linked worktree) is no directory.
GitEntries ==
  { GitEntry(WorkParts \o << "archived", "old-proj" >>, TRUE),
    GitEntry(WorkParts \o << "active", "proj" >>, TRUE),
    GitEntry(WorkParts \o << "archived" >>, TRUE),
    GitEntry(WorkParts \o << "active", "sub" >>, FALSE) }

IncludeLists ==
  { << >>,
    << << "~", "/", "work", "/", "*" >> >>,
    << << "work", "/", "active", "/", "**" >>,
       << "/", "home", "/", "u", "/", "work", "/", "archived" >> >> }

ExcludeLists ==
  { << >>,
    << << "~", "/", "work", "/", "archived" >> >>,
    << << "~", "/", "work", "/", "archived", "/", "*" >> >>,
    << << "~", "/", "**", "/", "proj" >>, << "~", "/", "work", "/", "archived" >> >> }

InitFind ==
  /\ fs_git \in SUBSET GitEntries
  /\ \E include \in IncludeLists, exclude \in ExcludeLists :
       config = Config(include, exclude)
  /\ findPc = "walk"
  /\ todo = fs_git /\ found = << >> /\ find_result = << >>
  /\ GhInit /\ gh_status = TRUE
  /\ AnIdle /\ author_emails = << >> /\ earliest_since = Now
  /\ ThIdle
  /\ MainIdle

\* One turn of the loop over root.rglob(".git") (lines 87-103); the order in
\* which rglob yields the entries is the order of the file system.
FindVisit ==
  /\ findPc = "walk"
  /\ \E git_dir \in todo :
       /\ todo' = todo \ {git_dir}
       /\ found' = IF FindKeeps(git_dir, config) THEN Append(found, git_dir.parent)
                   ELSE found
  /\ UNCHANGED << fs_git, config, findPc, find_result, anVars, ghVars, thVars, mainVars >>

\* return sorted(repos) (line 105).
FindReturn ==
  /\ findPc = "walk"
  /\ todo = {}
  /\ find_result' = sorted(found)
  /\ findPc' = "returned"
  /\ UNCHANGED << fs_git, config, todo, found, anVars, ghVars, thVars, mainVars >>

NextFind ==
  \/ FindVisit
  \/ FindReturn

SpecFind ==
  InitFind /\ [][NextFind]_vars

\* ---------------------------------------------------------------------------
\* Spec: a run of main
\* ---------------------------------------------------------------------------
MainHistory ==
  << RawCommit("1", EmailA, Now - 2, 3, 1, 2, TRUE),
     RawCommit("3", EmailB, Now - 24, 2, 2, 1, TRUE),
     RawCommit("2", EmailAUpper, Now - 30, 5, 0, 1, TRUE),
     RawCommit("4", EmailB, Now - 200, 1, 1, 1, FALSE),
     RawCommit("5", EmailA, Now - 721, 4, 4, 4, TRUE) >>

\* What a worker of the first pool finds at a repository: what Repo() does,
\* the history, the older commits the walk hands over as well, and after how
\* many commits the walk raises (-1: it does not).
MainRepoStates ==
  { [open |-> "ok", history |-> MainHistory, extra |-> {5}, fail_after |-> -1],
    [open |-> "ok", history |-> MainHistory, extra |-> {}, fail_after |-> 1],
    [open |-> "other_error", history |-> << >>, extra |-> {}, fail_after |-> -1] }

WalkOf(rs, since) ==
  LET all == IterCommits(rs.history, since, rs.extra)
  IN  IF rs.fail_after < 0 THEN [yielded |-> all, raised |-> FALSE]
      ELSE [yielded |-> Take(all, rs.fail_after), raised |-> TRUE]

GithubRemote == << RemoteUrl("ssh", "acme", "widgets", TRUE) >>

\* What a worker of the second pool finds: the remotes and the answer of gh.
MainFetchStates ==
  { [rs |-> [open |-> "ok", remotes |-> << >>], gh |-> GhOutput(0, TRUE, << >>)],
    [rs |-> [open |-> "ok", remotes |-> GithubRemote], gh |-> GhOutput(1, TRUE, << >>)],
    [rs |-> [open |-> "ok", remotes |-> GithubRemote],
     gh |-> GhOutput(0, TRUE, << PrOpenedOnly, PrMergedOnly, PrBoth, PrOld >>)],
    [rs |-> [open |-> "ok", remotes |-> GithubRemote],
     gh |-> GhOutput(0, TRUE, << PrBoth, PrNoCreatedAt, PrOpenedOnly >>)],
    [rs |-> [open |-> "other_error", remotes |-> << >>], gh |-> GhOutput(0, TRUE, << >>)] }

RepoIds == 1..Len(repos)

Running(status) == { i \in DOMAIN status : status[i] = "running" }

\* main up to line 164: the repositories found (at least one, sorted), the
\* author e-mails (at least one), the periods and the earliest bound.
Init ==
  /\ \E n \in 1..MaxRepos :
       /\ repos = [i \in 1..n |-> RepoPath(i)]
       /\ aStatus = [i \in 1..n |-> "pending"]
       /\ aResult = [i \in 1..n |-> Unset]
       /\ fStatus = [i \in 1..n |-> "pending"]
       /\ fResult = [i \in 1..n |-> Unset]
       /\ fInput = [i \in 1..n |-> Unset]
  /\ author_emails \in { << EmailA >>, << EmailB, EmailAUpper >> }
  /\ \E args \in ArgChoices :
       /\ periods = get_periods(args)
       /\ earliest_since = EarliestSince(get_periods(args))
  /\ mainPc = "analyze"
  /\ aDone = << >> /\ all_repo_stats = << >>
  /\ fDone = << >> /\ all_repo_prs = << >>
  /\ warnings = << >> /\ period_stats = << >> /\ rendered = Unset
  /\ calls = << >>
  /\ env = [repo_states |-> MainRepoStates, fetch_states |-> MainFetchStates]
  /\ GhInit
  /\ AnIdle
  /\ ThIdle
  /\ FindIdle

\* AnalyzeStart of an executor that starts a thread for every submitted task.
AnalyzeStartUncapped(i) ==
  /\ mainPc \in {"analyze", "analyze_unwind"}
  /\ aStatus[i] = "pending"
  /\ \A j \in 1..(i - 1) : aStatus[j] # "pending"
  /\ aStatus' = [aStatus EXCEPT ![i] = "running"]
  /\ calls' = Append(calls, [fn |-> "analyze_repo", repo |-> repos[i],
                             since |-> earliest_since])
  /\ UNCHANGED << inVars, repos, periods, mainPc, aResult, aDone, all_repo_stats,
                  fStatus, fResult, fDone, all_repo_prs, warnings, period_stats,
                  rendered, anVars, ghVars, thVars, findVars >>

\* A worker of the first pool takes the next submitted repository and calls
\* analyze_repo (the queue of the executor is first in, first out).
AnalyzeStart(i) ==
  /\ mainPc \in {"analyze", "analyze_unwind"}
  /\ aStatus[i] = "pending"
  /\ \A j \in 1..(i - 1) : aStatus[j] # "pending"
  /\ Cardinality(Running(aStatus)) < AnalyzeWorkers
  /\ aStatus' = [aStatus EXCEPT ![i] = "running"]
  /\ calls' = Append(calls, [fn |-> "analyze_repo", repo |-> repos[i],
                             since |-> earliest_since])
  /\ UNCHANGED << inVars, repos, periods, mainPc, aResult, aDone, all_repo_stats,
                  fStatus, fResult, fDone, all_repo_prs, warnings, period_stats,
                  rendered, anVars, ghVars, thVars, findVars >>

\* analyze_repo returns or raises; the future completes.
AnalyzeFinish(i) ==
  /\ aStatus[i] = "running"
  /\ \E rs \in env.repo_states :
       aResult' = [aResult EXCEPT ![i] =
                     analyze_repo(repos[i], rs.open, WalkOf(rs, earliest_since),
                                  author_emails, earliest_since)]
  /\ aStatus' = [aStatus EXCEPT ![i] = "done"]
  /\ aDone' = Append(aDone, i)
  /\ UNCHANGED << inVars, repos, periods, mainPc, all_repo_stats,
                  fStatus, fResult, fDone, all_repo_prs, warnings, period_stats,
                  rendered, calls, anVars, ghVars, thVars, findVars >>

\* as_completed hands the next completed future to the main thread, which
\* appends future.result() (line 93); a raising result leaves the loop, and
\* the last result ends analyze_repos_parallel.
AnalyzeCollect ==
  /\ mainPc = "analyze"
  /\ aDone # << >>
  /\ aDone' = Tail(aDone)
  /\ IF aResult[Head(aDone)].kind = "raise"
     THEN /\ mainPc' = "analyze_unwind"
          /\ UNCHANGED all_repo_stats
     ELSE /\ all_repo_stats' = Append(all_repo_stats, aResult[Head(aDone)].value)
          /\ mainPc' = IF Len(all_repo_stats) + 1 = Len(repos)
                       THEN "gh_check" ELSE "analyze"
  /\ UNCHANGED << inVars, repos, periods, aStatus, aResult,
                  fStatus, fResult, fDone, all_repo_prs, warnings, period_stats,
                  rendered, calls, anVars, ghVars, thVars, findVars >>

\* The exception leaves the with block once every task of the pool has run,
\* and ends main.
AnalyzeAbort ==
  /\ mainPc = "analyze_unwind"
  /\ \A i \in RepoIds : aStatus[i] = "done"
  /\ mainPc' = "aborted"
  /\ UNCHANGED << inVars, repos, periods, aStatus, aResult, aDone, all_repo_stats,
                  fStatus, fResult, fDone, all_repo_prs, warnings, period_stats,
                  rendered, calls, anVars, ghVars, thVars, findVars >>

\* fetch_prs_parallel without the early return of lines 105-106: the tasks
\* are submitted whatever is_gh_available answered.
GhCheckNoEarlyReturn ==
  /\ mainPc = "gh_check"
  /\ gh_available' = (IF gh_available # None THEN gh_available ELSE BoolStr(gh_status))
  /\ gh_checks' = IF gh_available # None THEN gh_checks ELSE gh_checks + 1
  /\ mainPc' = "fetch"
  /\ UNCHANGED << inVars, repos, periods, aStatus, aResult, aDone, all_repo_stats,
                  fStatus, fResult, fDone, all_repo_prs, warnings, period_stats,
                  rendered, calls, anVars, gh_warning_shown, gh_status, thVars, findVars >>

\* fetch_prs_parallel, lines 105-106: is_gh_available on the main thread;
\* without gh one empty RepoPRs per repository is returned at once.
GhCheck ==
  /\ mainPc = "gh_check"
  /\ LET available == IF gh_available # None THEN gh_available ELSE BoolStr(gh_status)
     IN  /\ gh_available' = available
         /\ gh_checks' = IF gh_available # None THEN gh_checks ELSE gh_checks + 1
         /\ IF available = "True"
            THEN /\ mainPc' = "fetch"
                 /\ UNCHANGED all_repo_prs
            ELSE /\ mainPc' = "warnings"
                 /\ all_repo_prs' = [i \in RepoIds |-> EmptyPRs(repos[i], None)]
  /\ UNCHANGED << inVars, repos, periods, aStatus, aResult, aDone, all_repo_stats,
                  fStatus, fResult, fDone, warnings, period_stats,
                  rendered, calls, anVars, gh_warning_shown, gh_status, thVars, findVars >>

\* FetchStart of a pool with a single worker.
FetchStartSingleWorker(i) ==
  /\ mainPc \in {"fetch", "fetch_unwind"}
  /\ fStatus[i] = "pending"
  /\ \A j \in 1..(i - 1) : fStatus[j] # "pending"
  /\ Cardinality(Running(fStatus)) < 1
  /\ fStatus' = [fStatus EXCEPT ![i] = "running"]
  /\ calls' = Append(calls, [fn |-> "fetch_prs", repo |-> repos[i],
                             since |-> earliest_since])
  /\ UNCHANGED << inVars, repos, periods, mainPc, aStatus, aResult, aDone, all_repo_stats,
                  fResult, fDone, all_repo_prs, warnings, period_stats,
                  rendered, anVars, ghVars, thVars, findVars >>

\* A worker of the second pool takes the next submitted repository and calls
\* fetch_prs.
FetchStart(i) ==
  /\ mainPc \in {"fetch", "fetch_unwind"}
  /\ fStatus[i] = "pending"
  /\ \A j \in 1..(i - 1) : fStatus[j] # "pending"
  /\ Cardinality(Running(fStatus)) < FetchWorkers
  /\ fStatus' = [fStatus EXCEPT ![i] = "running"]
  /\ calls' = Append(calls, [fn |-> "fetch_prs", repo |-> repos[i],
                             since |-> earliest_since])
  /\ UNCHANGED << inVars, repos, periods, mainPc, aStatus, aResult, aDone, all_repo_stats,
                  fResult, fDone, all_repo_prs, warnings, period_stats,
                  rendered, anVars, ghVars, thVars, findVars >>

\* fetch_prs returns or raises; the future completes.  The memoized value is
\* set by now, so is_gh_available only reads it.
FetchFinish(i) ==
  /\ fStatus[i] = "running"
  /\ gh_available # None
  /\ IF gh_available = "True"
     THEN /\ \E fs \in env.fetch_states :
               /\ fInput' = [fInput EXCEPT ![i] = [kind |-> "input", rs |-> fs.rs,
                                                   gh |-> fs.gh]]
               /\ fResult' = [fResult EXCEPT ![i] =
                                fetch_prs_available(repos[i], fs.rs, fs.gh, earliest_since)]
          /\ UNCHANGED gh_warning_shown
     ELSE /\ fResult' = [fResult EXCEPT ![i] =
                           Return(EmptyPRs(repos[i], IF gh_warning_shown THEN None
                                                     ELSE GhWarning))]
          /\ gh_warning_shown' = TRUE
          /\ UNCHANGED fInput
  /\ fStatus' = [fStatus EXCEPT ![i] = "done"]
  /\ fDone' = Append(fDone, i)
  /\ UNCHANGED << env, repos, periods, mainPc, aStatus, aResult, aDone, all_repo_stats,
                  all_repo_prs, warnings, period_stats, rendered, calls,
                  anVars, gh_available, gh_status, gh_checks, thVars, findVars >>

\* as_completed hands the next completed future to the main thread (line 125).
FetchCollect ==
  /\ mainPc = "fetch"
  /\ fDone # << >>
  /\ fDone' = Tail(fDone)
  /\ IF fResult[Head(fDone)].kind = "raise"
     THEN /\ mainPc' = "fetch_unwind"
          /\ UNCHANGED all_repo_prs
     ELSE /\ all_repo_prs' = Append(all_repo_prs, fResult[Head(fDone)].value)
          /\ mainPc' = IF Len(all_repo_prs) + 1 = Len(repos)
                       THEN "warnings" ELSE "fetch"
  /\ UNCHANGED << inVars, repos, periods, aStatus, aResult, aDone, all_repo_stats,
                  fStatus, fResult, warnings, period_stats,
                  rendered, calls, anVars, ghVars, thVars, findVars >>

FetchAbort ==
  /\ mainPc = "fetch_unwind"
  /\ \A i \in RepoIds : fStatus[i] = "done"
  /\ mainPc' = "aborted"
  /\ UNCHANGED << inVars, repos, periods, aStatus, aResult, aDone, all_repo_stats,
                  fStatus, fResult, fDone, all_repo_prs, warnings, period_stats,
                  rendered, calls, anVars, ghVars, thVars, findVars >>

\* main, lines 171-174.
CollectWarnings ==
  /\ mainPc = "warnings"
  /\ warnings' = FirstWarning(all_repo_prs, 1)
  /\ mainPc' = "build"
  /\ UNCHANGED << inVars, repos, periods, aStatus, aResult, aDone, all_repo_stats,
                  fStatus, fResult, fDone, all_repo_prs, period_stats,
                  rendered, calls, anVars, ghVars, thVars, findVars >>

\* main, lines 177-209.
BuildPeriodStats ==
  /\ mainPc = "build"
  /\ period_stats' = [p \in 1..Len(periods) |->
                        PeriodStats(periods[p], all_repo_stats, all_repo_prs)]
  /\ mainPc' = "render"
  /\ UNCHANGED << inVars, repos, periods, aStatus, aResult, aDone, all_repo_stats,
                  fStatus, fResult, fDone, all_repo_prs, warnings,
                  rendered, calls, anVars, ghVars, thVars, findVars >>

\* main, line 212.
RenderReport ==
  /\ mainPc = "render"
  /\ rendered' = [kind |-> "rendered", periods |-> period_stats, warnings |-> warnings]
  /\ mainPc' = "done"
  /\ UNCHANGED << inVars, repos, periods, aStatus, aResult, aDone, all_repo_stats,
                  fStatus, fResult, fDone, all_repo_prs, warnings, period_stats,
                  calls, anVars, ghVars, thVars, findVars >>

Next ==
  \/ \E i \in RepoIds : AnalyzeStart(i)
  \/ \E i \in RepoIds : AnalyzeFinish(i)
  \/ AnalyzeCollect
  \/ AnalyzeAbort
  \/ GhCheck
  \/ \E i \in RepoIds : FetchStart(i)
  \/ \E i \in RepoIds : FetchFinish(i)
  \/ FetchCollect
  \/ FetchAbort
  \/ CollectWarnings
  \/ BuildPeriodStats
  \/ RenderReport

Spec == Init /\ [][Next]_vars

\* ---------------------------------------------------------------------------
\* SpecPool: the worker threads of the two pools, with more repositories
\* submitted than the pool has workers
\* ---------------------------------------------------------------------------
\* Every repository opens, and gh answers with a list.
PoolRepoState == [open |-> "ok", history |-> MainHistory, extra |-> {}, fail_after |-> -1]

PoolFetchState ==
  [rs |-> [open |-> "ok", remotes |-> GithubRemote],
   gh |-> GhOutput(0, TRUE, << PrOpenedOnly, PrBoth >>)]

\* main over n repositories, with one period and one author e-mail.
PoolMain(n) ==
  /\ repos = [i \in 1..n |-> RepoPath(i)]
  /\ author_emails = << EmailA >>
  /\ periods = get_periods("daily")
  /\ earliest_since = EarliestSince(get_periods("daily"))
  /\ env = [repo_states |-> {PoolRepoState}, fetch_states |-> {PoolFetchState}]
  /\ fStatus = [i \in 1..n |-> "pending"]
  /\ fResult = [i \in 1..n |-> Unset]
  /\ fInput = [i \in 1..n |-> Unset]
  /\ fDone = << >> /\ all_repo_prs = << >>
  /\ warnings = << >> /\ period_stats = << >> /\ rendered = Unset
  /\ gh_warning_shown = FALSE
  /\ AnIdle
  /\ ThIdle
  /\ FindIdle

\* analyze_repos_parallel has submitted its tasks (line 90).
PoolAtAnalyze(n) ==
  /\ PoolMain(n)
  /\ mainPc = "analyze"
  /\ aStatus = [i \in 1..n |-> "pending"]
  /\ aResult = [i \in 1..n |-> Unset]
  /\ aDone = << >> /\ all_repo_stats = << >>
  /\ calls = << >>
  /\ gh_available = None /\ gh_checks = 0

\* fetch_prs_parallel has submitted its tasks (line 122): the first pool is
\* done, its results were collected in the order of submission, and gh was
\* found available.
PoolAtFetch(n) ==
  /\ PoolMain(n)
  /\ mainPc = "fetch"
  /\ aStatus = [i \in 1..n |-> "done"]
  /\ aResult = [i \in 1..n |->
                  analyze_repo(RepoPath(i), PoolRepoState.open,
                               WalkOf(PoolRepoState, EarliestSince(get_periods("daily"))),
                               << EmailA >>, EarliestSince(get_periods("daily")))]
  /\ aDone = << >> /\ all_repo_stats = [i \in 1..n |-> aResult[i].value]
  /\ calls = [i \in 1..n |-> [fn |-> "analyze_repo", repo |-> RepoPath(i),
                              since |-> EarliestSince(get_periods("daily"))]]
  /\ gh_available = "True" /\ gh_checks = 1 /\ gh_status = TRUE

\* One repository more than the pool has workers.
InitPool ==
  \/ PoolAtAnalyze(AnalyzeWorkers + 1) /\ gh_status = FALSE
  \/ PoolAtFetch(FetchWorkers + 1)

\* The steps of the worker threads; the main thread only takes completed
\* futures, it starts and ends no task.
NextPool ==
  \/ \E i \in RepoIds : AnalyzeStart(i)
  \/ \E i \in RepoIds : AnalyzeFinish(i)
  \/ \E i \in RepoIds : FetchStart(i)
  \/ \E i \in RepoIds : FetchFinish(i)

SpecPool == InitPool /\ [][NextPool]_vars

\* ---------------------------------------------------------------------------
\* SpecPoolFair: main from the entry of analyze_repos_parallel or of the
\* second pool on, over more repositories than the second pool has workers,
\* with fair scheduling
\* ---------------------------------------------------------------------------
InitPoolFair ==
  \/ PoolAtAnalyze(FetchWorkers + 1) /\ gh_status = FALSE
  \/ PoolAtFetch(FetchWorkers + 1)

\* No worker raises in these runs, so the pools are never unwound.
NextPoolFair ==
  \/ \E i \in RepoIds : AnalyzeStart(i)
  \/ \E i \in RepoIds : AnalyzeFinish(i)
  \/ AnalyzeCollect
  \/ GhCheck
  \/ \E i \in RepoIds : FetchStart(i)
  \/ \E i \in RepoIds : FetchFinish(i)
  \/ FetchCollect
  \/ CollectWarnings
  \/ BuildPeriodStats
  \/ RenderReport

\* A free worker takes the next queued task.
WorkerStart == \E i \in RepoIds : AnalyzeStart(i) \/ FetchStart(i)

\* A started task other than the task of the first repository returns.
WorkerFinish == \E i \in RepoIds \ {1} : AnalyzeFinish(i) \/ FetchFinish(i)

\* The main thread takes its next step.
MainStep ==
  \/ AnalyzeCollect
  \/ GhCheck
  \/ FetchCollect
  \/ CollectWarnings
  \/ BuildPeriodStats
  \/ RenderReport

\* The executor hands a queued task to a free worker, the threads are
\* scheduled, and started tasks return, except that the task of the first
\* repository may block for ever in either pool.
SpecPoolFair ==
  /\ InitPoolFair
  /\ [][NextPoolFair]_vars
  /\ WF_vars(WorkerStart) /\ WF_vars(WorkerFinish) /\ WF_vars(MainStep)

\* ---------------------------------------------------------------------------
\* Claims about analyze_repo (checked under SpecAnalyze)
\* ---------------------------------------------------------------------------
\* C2: analyze_repo never returns a RepoStats with both an error and a
\* non-empty commit list; commits appended before a failure of the walk are
\* discarded.
C2_NoPartialListWithError ==
  full.kind = "return" =>
    (full.value.error = None \/ full.value.commits = << >>)

EmailMatches(c, emails) ==
  emails = << >> \/ \E i \in 1..Len(emails) : Lower(c.email) = Lower(emails[i])

ExpectedCommits(walk, emails, since) ==
  LET sel == SelectSeq(walk, LAMBDA c : c.authored_date >= since /\ EmailMatches(c, emails))
  IN  [i \in 1..Len(sel) |-> CommitInfo(sel[i])]

\* C10: after a successful walk analyze_repo returns exactly the walked
\* commits, in walk order, authored at or after since whose lower-cased e-mail
\* is in the lower-cased author set (every commit when the set is empty); in
\* the scenario, author a@x and bound T-24h give exactly the commit at T-2h.
C10_ExactlyMatchingCommits ==
  (full.kind = "return" /\ full.value.error = None /\ walkFull # NoWalk) =>
    /\ full.value.commits = ExpectedCommits(walkFull.yielded, author_emails, earliest_since)
    /\ (history = ScenarioHistory /\ author_emails = << EmailA >>
          /\ earliest_since = Now - 24) =>
         full.value.commits = << CommitInfo(ScenarioHistory[2]) >>

\* C10 witness: the scenario history walked in full (the walk handed over the
\* commits older than the bound too) with the filter written in upper case.
C10_Witness ==
  /\ history = ScenarioHistory /\ author_emails = << EmailAUpper >>
  /\ earliest_since = Now - 24
  /\ full.kind = "return" /\ full.value.error = None
  /\ Len(walkFull.yielded) = 5
  /\ full.value.commits = << CommitInfo(ScenarioHistory[2]) >>

\* C15: when the path is not a valid repository, analyze_repo returns a
\* RepoStats whose error is exactly "Not a valid repository" and whose commit
\* list is empty; when the repository is bare, the error is exactly
\* "Bare repository" and the commit list is empty.
C15_InvalidAndBareErrors ==
  /\ opened = "invalid" =>
       /\ full.kind = "return"
       /\ full.value.error = "Not a valid repository"
       /\ full.value.commits = << >>
  /\ opened = "bare" =>
       /\ full.kind = "return"
       /\ full.value.error = "Bare repository"
       /\ full.value.commits = << >>

\* C15 as the code has it: when Repo(repo_path) raises
\* InvalidGitRepositoryError, analyze_repo returns a RepoStats whose error is
\* exactly "Not a valid git repository" and whose commit list is empty; when
\* the repository is bare, the error is exactly "Bare repository" and the
\* commit list is empty.
C15_InvalidAndBareErrorsAmended ==
  /\ opened = "invalid" =>
       /\ full.kind = "return"
       /\ full.value.error = "Not a valid git repository"
       /\ full.value.commits = << >>
  /\ opened = "bare" =>
       /\ full.kind = "return"
       /\ full.value.error = "Bare repository"
       /\ full.value.commits = << >>

\* C15 witness: analyze_repo has returned for a bare repository whose history
\* holds commits of the author within the window.
C15_Witness ==
  /\ opened = "bare" /\ full.kind = "return"
  /\ ExpectedCommits(history, author_emails, earliest_since) # << >>

\* ---------------------------------------------------------------------------
\* Claims about concurrent fetch_prs callers (checked under SpecThreads)
\* ---------------------------------------------------------------------------
\* C3: when several threads call is_gh_available while the memoized value is
\* unset, `gh auth status` is executed exactly once and all callers observe
\* the same result.
C3_CheckExecutedOnce ==
  (\A t \in Threads : thAvail[t] # None) =>
    /\ gh_checks = 1
    /\ \A t, u \in Threads : thAvail[t] = thAvail[u]

\* C4: when several threads call fetch_prs while the hosting CLI is
\* unavailable, at most one returned RepoPRs carries the warning.
C4_AtMostOneWarning ==
  Cardinality({ t \in Threads : /\ thResult[t].kind = "return"
                                /\ thResult[t].value.error = GhWarning }) <= 1

\* The entry raises while fetch_prs turns it into a PRInfo.
EntryMalformed(pr) ==
  \/ pr.createdAt = Missing \/ pr.createdAt = BadStamp
  \/ pr.mergedAt = BadStamp

\* gh exited non-zero, or its output is no JSON, or an entry is malformed.
GhFailed(gh) ==
  \/ gh.returncode # 0
  \/ ~gh.valid_json
  \/ \E i \in 1..Len(gh.prs_data) : EntryMalformed(gh.prs_data[i])

\* C6: when gh exits non-zero or its output is malformed, fetch_prs returns a
\* RepoPRs with an error and with prs_opened and prs_merged empty.
C6_NoPartialParse ==
  \A t \in Threads :
    (/\ thResult[t].kind = "return" /\ thInput[t].kind = "input"
     /\ thResult[t].value.owner # ""
     /\ GhFailed(thInput[t].gh)) =>
      /\ thResult[t].value.error # None
      /\ thResult[t].value.prs_opened = << >>
      /\ thResult[t].value.prs_merged = << >>

\* ---------------------------------------------------------------------------
\* Claims about sequential fetch_prs calls (checked under SpecSequential)
\* ---------------------------------------------------------------------------
EmptyShape(result, error) ==
  /\ result.kind = "return"
  /\ result.value.owner = ""
  /\ result.value.prs_opened = << >> /\ result.value.prs_merged = << >>
  /\ result.value.error = error

\* C18: in a sequential series of fetch_prs calls made while gh is
\* unavailable, the first call returns a RepoPRs with empty owner and empty
\* lists and the warning string as error, every later call returns the same
\* empty shape with error None; and _gh_warning_shown, once true, never
\* becomes false again.
C18_WarningOnceInSeries ==
  /\ [](gh_status = FALSE =>
          \A t \in Threads :
            thPc[t] = "done" =>
              EmptyShape(thResult[t], IF t = 1 THEN GhWarning ELSE None))
  /\ [][gh_warning_shown => gh_warning_shown']_vars

\* C18 witness: without gh, the last call of the series has returned the
\* empty shape without an error after the first returned the warning.
C18_Witness ==
  /\ gh_status = FALSE /\ gh_warning_shown
  /\ \A t \in Threads : thPc[t] = "done"
  /\ thResult[1].value.error = GhWarning
  /\ thResult[MaxThreads].value.error = None

\* ---------------------------------------------------------------------------
\* Claims about a run of main (checked under Spec)
\* ---------------------------------------------------------------------------
\* C1: in a run over N > 1 repositories in which the gh availability check
\* returns false, the warnings list handed to the renderer holds exactly the
\* one "gh CLI not available" warning.
C1_ExactlyOneCliWarning ==
  (rendered.kind = "rendered" /\ Len(repos) > 1 /\ gh_available = "False") =>
    rendered.warnings = << GhWarning >>

\* C5: no failure of a single repository aborts the run: analyze_repo and
\* fetch_prs never raise, future.result() never raises, and main is not ended
\* before render_report.
C5_NoRepositoryAbortsRun ==
  /\ \A i \in RepoIds : aResult[i].kind # "raise" /\ fResult[i].kind # "raise"
  /\ mainPc \notin {"analyze_unwind", "fetch_unwind", "aborted"}

IsSubset(s1, s2) == SeqToSet(s1) \subseteq SeqToSet(s2)

\* C7: for every repository and every two windows W1, W2 with
\* bound(W1) >= bound(W2), the commits, opened PRs and merged PRs of W1 are
\* subsets of those of W2.
C7_FilterMonotonic ==
  \A p1, p2 \in 1..Len(period_stats) :
    periods[p1].since >= periods[p2].since =>
      /\ \A k \in 1..Len(period_stats[p1].repo_stats) :
           IsSubset(period_stats[p1].repo_stats[k].commits,
                    period_stats[p2].repo_stats[k].commits)
      /\ \A k \in 1..Len(period_stats[p1].repo_prs) :
           /\ IsSubset(period_stats[p1].repo_prs[k].prs_opened,
                       period_stats[p2].repo_prs[k].prs_opened)
           /\ IsSubset(period_stats[p1].repo_prs[k].prs_merged,
                       period_stats[p2].repo_prs[k].prs_merged)

\* C7 witness: three windows built, and a repository whose commits, opened PRs
\* and merged PRs of the last 24 hours are fewer than, but not none of, those
\* of the last 7 days.
C7_Witness ==
  /\ mainPc = "done" /\ Len(period_stats) = 3
  /\ \E k \in RepoIds :
       /\ Len(period_stats[1].repo_stats[k].commits) >= 1
       /\ Len(period_stats[1].repo_stats[k].commits)
            < Len(period_stats[2].repo_stats[k].commits)
  /\ \E k \in RepoIds :
       /\ Len(period_stats[1].repo_prs[k].prs_opened) >= 1
       /\ Len(period_stats[1].repo_prs[k].prs_opened)
            < Len(period_stats[2].repo_prs[k].prs_opened)
       /\ Len(period_stats[1].repo_prs[k].prs_merged) >= 1
       /\ Len(period_stats[1].repo_prs[k].prs_merged)
            < Len(period_stats[2].repo_prs[k].prs_merged)

CallsOf(fn, repo) ==
  { c \in 1..Len(calls) : calls[c].fn = fn /\ calls[c].repo = repo }

\* C8: in a run of main exactly one analyze_repo call and exactly one
\* fetch_prs call occur per discovered repository, each with since equal to
\* the minimum bound of the requested windows.
C8_OnePassPerRepository ==
  mainPc = "done" =>
    /\ \A i \in RepoIds :
         /\ Cardinality(CallsOf("analyze_repo", repos[i])) = 1
         /\ Cardinality(CallsOf("fetch_prs", repos[i])) = 1
    /\ \A c \in 1..Len(calls) :
         \A p \in 1..Len(periods) : calls[c].since <= periods[p].since

\* The entries of an answer of gh that the loop of fetch_prs turned into
\* PRInfo: those before the first malformed entry of a well-formed answer.
ParsedEntries(gh) ==
  IF gh.returncode # 0 \/ ~gh.valid_json THEN {}
  ELSE { gh.prs_data[j] : j \in { i \in 1..Len(gh.prs_data) :
                                    \A m \in 1..i : ~EntryMalformed(gh.prs_data[m]) } }

Numbers(prs) == { prs[x].number : x \in 1..Len(prs) }

\* C11: in what render_report receives, for every window and repository: no
\* PR created before the earliest window bound is in any window's prs_opened;
\* a PR that gh listed, merged within the window and created before every
\* window bound, is in that window's prs_merged and in no window's
\* prs_opened; every PR of a window's prs_merged has a merged_at that is not
\* None and is at or after the bound of that window.
C11_OpenedAndMergedLists ==
  rendered.kind = "rendered" =>
    \A p \in 1..Len(rendered.periods) :
      \A k \in 1..Len(rendered.periods[p].repo_prs) :
        LET rp == rendered.periods[p].repo_prs[k]
            since == periods[p].since
            openedAnywhere ==
              UNION { Numbers(rendered.periods[q].repo_prs[k].prs_opened) :
                        q \in 1..Len(rendered.periods) }
        IN  /\ \A x \in 1..Len(rp.prs_opened) :
                 rp.prs_opened[x].created_at >= earliest_since
            /\ \A x \in 1..Len(rp.prs_merged) :
                 /\ rp.prs_merged[x].merged_at # NoTime
                 /\ rp.prs_merged[x].merged_at >= since
            /\ \A i \in RepoIds :
                 (repos[i] = rp.repo_path /\ fInput[i].kind = "input") =>
                   \A e \in ParsedEntries(fInput[i].gh) :
                     /\ e.createdAt.hour < earliest_since =>
                          e.number \notin openedAnywhere
                     /\ (/\ e.mergedAt.kind = "stamp"
                         /\ e.mergedAt.hour >= since
                         /\ e.createdAt.hour < earliest_since) =>
                          e.number \in Numbers(rp.prs_merged)

\* C11 witness: three windows rendered, and a repository for which gh listed
\* a PR created before the 30-day bound and merged within the last 7 days: it
\* is in the 7-day and 30-day prs_merged, not in the 24-hour one, and in no
\* prs_opened.
C11_Witness ==
  /\ rendered.kind = "rendered" /\ Len(rendered.periods) = 3
  /\ \E i \in RepoIds : \E k \in 1..Len(all_repo_prs) :
       /\ fInput[i].kind = "input" /\ all_repo_prs[k].repo_path = repos[i]
       /\ PrMergedOnly \in ParsedEntries(fInput[i].gh)
       /\ PrMergedOnly.number \in Numbers(rendered.periods[2].repo_prs[k].prs_merged)
       /\ PrMergedOnly.number \in Numbers(rendered.periods[3].repo_prs[k].prs_merged)
       /\ PrMergedOnly.number \notin Numbers(rendered.periods[1].repo_prs[k].prs_merged)
       /\ \A q \in 1..3 :
            PrMergedOnly.number \notin Numbers(rendered.periods[q].repo_prs[k].prs_opened)

\* C12: the repository lists that render_report receives for each window
\* (repo_stats and repo_prs) are in discovery order, the sorted order
\* find_repos returned, whichever worker finishes first.
C12_DiscoveryOrder ==
  rendered.kind = "rendered" =>
    \A p \in 1..Len(rendered.periods) :
      /\ [k \in 1..Len(rendered.periods[p].repo_stats) |->
            rendered.periods[p].repo_stats[k].path] = repos
      /\ [k \in 1..Len(rendered.periods[p].repo_prs) |->
            rendered.periods[p].repo_prs[k].repo_path] = repos

Erroring(prs) == { k \in 1..Len(prs) : prs[k].error # None /\ prs[k].error # "" }

\* C13: the warnings list render_report receives has at most one element;
\* when at least one collected RepoPRs carries an error, it holds exactly the
\* error of the first such result in collection order.
C13_FirstErrorOnly ==
  rendered.kind = "rendered" =>
    /\ Len(rendered.warnings) <= 1
    /\ Erroring(all_repo_prs) # {} =>
         \E k \in Erroring(all_repo_prs) :
           /\ \A j \in Erroring(all_repo_prs) : k <= j
           /\ rendered.warnings = << all_repo_prs[k].error >>
    /\ Erroring(all_repo_prs) = {} => rendered.warnings = << >>

\* C13 witness: two repositories failed with different errors, and the
\* rendered warning is the error of the one collected first.
C13_Witness ==
  /\ rendered.kind = "rendered"
  /\ Cardinality(Erroring(all_repo_prs)) = 2
  /\ all_repo_prs[1].error # all_repo_prs[2].error
  /\ rendered.warnings = << all_repo_prs[1].error >>

\* C21: in a run of main the availability check is made on the main thread
\* in fetch_prs_parallel before any fetch worker is started, so a started
\* worker finds _gh_available set and `gh auth status` is executed at most
\* once; when the check is false no fetch worker is started, fetch_prs is
\* never called, and every returned RepoPRs has error None.
C21_CheckBeforeWorkers ==
  /\ [](/\ gh_checks <= 1
        /\ \A i \in RepoIds : fStatus[i] # "pending" => gh_available # None
        /\ gh_available = "False" =>
             /\ \A i \in RepoIds : fStatus[i] = "pending"
             /\ \A i \in RepoIds : CallsOf("fetch_prs", repos[i]) = {}
             /\ Len(all_repo_prs) = Len(repos)
             /\ \A k \in 1..Len(all_repo_prs) :
                  /\ all_repo_prs[k].repo_path = repos[k]
                  /\ all_repo_prs[k].error = None)
  /\ [][(gh_available = None /\ gh_available' # None) =>
          (mainPc = "gh_check" /\ \A i \in RepoIds : fStatus[i] = "pending")]_vars

\* C21 witness: a run over two repositories without gh has reached
\* render_report: one check, no fetch worker, no warning.
C21_Witness ==
  /\ mainPc = "done" /\ Len(repos) = 2
  /\ gh_available = "False" /\ gh_checks = 1
  /\ \A i \in RepoIds : fStatus[i] = "pending"
  /\ Len(all_repo_prs) = 2

\* ---------------------------------------------------------------------------
\* Claims about find_repos (checked under SpecFind)
\* ---------------------------------------------------------------------------
ArchivedOldProj == WorkParts \o << "archived", "old-proj" >>

ActiveProj == WorkParts \o << "active", "proj" >>

ScenarioConfig ==
  Config(<< << "~", "/", "work", "/", "*" >> >>,
         << << "~", "/", "work", "/", "archived" >> >>)

\* C14: with include ["~/work/*"] and exclude ["~/work/archived"], find_repos
\* leaves out a discovered repository at ~/work/archived/old-proj and returns
\* ~/work/active/proj; a candidate passes iff include is empty or one of its
\* patterns matches, and no exclude pattern matches.
C14_ScenarioExcludesArchived ==
  findPc = "returned" =>
    /\ SeqToSet(find_result) =
         { g.parent : g \in { e \in fs_git : FindKeeps(e, config) } }
    /\ (/\ config = ScenarioConfig
        /\ GitEntry(ArchivedOldProj, TRUE) \in fs_git
        /\ GitEntry(ActiveProj, TRUE) \in fs_git) =>
         /\ ArchivedOldProj \notin SeqToSet(find_result)
         /\ ActiveProj \in SeqToSet(find_result)

TotalFields == {"lines_added", "lines_removed", "files_changed"}

\* The sum of weight[x] over the elements x of a finite set.
RECURSIVE SetSum(_, _)
SetSum(S, weight) ==
  IF S = {} THEN 0
  ELSE LET x == CHOOSE y \in S : TRUE
       IN  weight[x] + SetSum(S \ {x}, weight)

\* The commit records of the result of repository i that lie in a window.
InWindow(i, since) ==
  { << i, j >> : j \in { m \in 1..Len(aResult[i].value.commits) :
                          aResult[i].value.commits[m].authored_date >= since } }

WindowSum(pairs, field) ==
  SetSum(pairs, [x \in pairs |-> aResult[x[1]].value.commits[x[2]][field]])

\* C16: in what render_report receives, every discovered repository has
\* exactly one result in every window, and the totals of lines added, lines
\* removed and files changed, per repository and for the period, are the sums
\* of the field over the commit records of the repository results that lie in
\* the window, each record counted once.
C16_TotalsAreWindowSums ==
  rendered.kind = "rendered" =>
    \A p \in 1..Len(rendered.periods) :
      LET period == rendered.periods[p]
          since == periods[p].since
      IN  /\ Len(period.repo_stats) = Len(repos)
          /\ \A i \in RepoIds :
               \E k \in 1..Len(period.repo_stats) :
                 /\ period.repo_stats[k].path = repos[i]
                 /\ \A m \in 1..Len(period.repo_stats) :
                      period.repo_stats[m].path = repos[i] => m = k
                 /\ \A field \in TotalFields :
                      RepoTotal(period.repo_stats[k], field)
                        = WindowSum(InWindow(i, since), field)
          /\ \A field \in TotalFields :
               PeriodTotal(period, field)
                 = WindowSum(UNION { InWindow(i, since) : i \in RepoIds }, field)

\* C16 witness: three windows and two repositories rendered, both with
\* commits in the 24-hour window, one of them with an error, and a 30-day
\* total of lines added above the 24-hour total.
C16_Witness ==
  /\ rendered.kind = "rendered" /\ Len(rendered.periods) = 3 /\ Len(repos) = 2
  /\ \A k \in 1..2 : RepoTotal(rendered.periods[1].repo_stats[k], "lines_added") > 0
  /\ \E k \in 1..2 : rendered.periods[1].repo_stats[k].error # None
  /\ PeriodTotal(rendered.periods[1], "lines_added")
       < PeriodTotal(rendered.periods[3], "lines_added")

\* C17: at every point at most 8 analyze_repo tasks and at most 4 fetch_prs
\* tasks are executing; a repository beyond the cap has started only if a
\* task of the same pool has finished.
C17_PoolCaps ==
  /\ Cardinality(Running(aStatus)) <= 8
  /\ Cardinality(Running(fStatus)) <= 4
  /\ \A i \in RepoIds :
       /\ (i > 8 /\ aStatus[i] # "pending") =>
            \E j \in RepoIds : j # i /\ aStatus[j] = "done"
       /\ (i > 4 /\ fStatus[i] # "pending") =>
            \E j \in RepoIds : j # i /\ fStatus[j] = "done"

\* C17 witness: the ninth repository is being analyzed next to seven others,
\* one task having finished.
C17_Witness ==
  /\ Len(repos) = 9 /\ aStatus[9] = "running"
  /\ Cardinality(Running(aStatus)) = 8
  /\ Cardinality({ i \in RepoIds : aStatus[i] = "done" }) = 1

\* C19: the re-aggregation yields one PeriodStats per requested window, in
\* the requested order, each with one RepoStats and one RepoPRs per entry of
\* the single pass, in the same positions, with path, name and error of the
\* RepoStats and repo_path, repo_name, owner and error of the RepoPRs
\* unchanged; the lists of the single pass still hold what the workers
\* returned.
C19_ReaggregationFrame ==
  mainPc \in {"render", "done"} =>
    /\ Len(period_stats) = Len(periods)
    /\ \A p \in 1..Len(period_stats) :
         /\ period_stats[p].name = periods[p].name
         /\ Len(period_stats[p].repo_stats) = Len(all_repo_stats)
         /\ Len(period_stats[p].repo_prs) = Len(all_repo_prs)
         /\ \A k \in 1..Len(all_repo_stats) :
              /\ period_stats[p].repo_stats[k].path = all_repo_stats[k].path
              /\ period_stats[p].repo_stats[k].name = all_repo_stats[k].name
              /\ period_stats[p].repo_stats[k].error = all_repo_stats[k].error
         /\ \A k \in 1..Len(all_repo_prs) :
              /\ period_stats[p].repo_prs[k].repo_path = all_repo_prs[k].repo_path
              /\ period_stats[p].repo_prs[k].repo_name = all_repo_prs[k].repo_name
              /\ period_stats[p].repo_prs[k].owner = all_repo_prs[k].owner
              /\ period_stats[p].repo_prs[k].error = all_repo_prs[k].error
    /\ \A k \in 1..Len(all_repo_stats) :
         \E i \in RepoIds :
           repos[i] = all_repo_stats[k].path /\ aResult[i] = Return(all_repo_stats[k])
    /\ \A k \in 1..Len(all_repo_prs) :
         \E i \in RepoIds :
           /\ repos[i] = all_repo_prs[k].repo_path
           /\ fResult[i].kind = "return" => fResult[i] = Return(all_repo_prs[k])

\* C19 witness: three windows built over two repositories; the 24-hour
\* window dropped commits and PRs of the single pass, and one RepoStats and
\* one RepoPRs carry an error.
C19_Witness ==
  /\ mainPc = "done" /\ Len(period_stats) = 3 /\ Len(all_repo_stats) = 2
  /\ \E k \in 1..2 : all_repo_stats[k].error # None
  /\ \E k \in 1..2 :
       Len(period_stats[1].repo_stats[k].commits) < Len(all_repo_stats[k].commits)
  /\ \E k \in 1..2 : all_repo_prs[k].error # None /\ all_repo_prs[k].owner # ""
  /\ \E k \in 1..2 :
       Len(period_stats[1].repo_prs[k].prs_merged) < Len(all_repo_prs[k].prs_merged)

\* ---------------------------------------------------------------------------
\* Claims about runs in which the tasks return (checked under SpecPoolFair)
\* ---------------------------------------------------------------------------
\* The list holds exactly one result for every repository.
OnePerRepo(paths) ==
  /\ Len(paths) = Len(repos)
  /\ \A i \in RepoIds : Cardinality({ k \in 1..Len(paths) : paths[k] = repos[i] }) = 1

NoDuplicate(paths) ==
  \A k, m \in 1..Len(paths) : paths[k] = paths[m] => k = m

StatsPaths == [k \in 1..Len(all_repo_stats) |-> all_repo_stats[k].path]

PrsPaths == [k \in 1..Len(all_repo_prs) |-> all_repo_prs[k].repo_path]

AnalyzeReturned == mainPc \notin {"analyze", "analyze_unwind"}

FetchReturned == mainPc \notin {"analyze", "analyze_unwind", "gh_check", "fetch", "fetch_unwind"}

\* C20: if every worker task returns, analyze_repos_parallel and
\* fetch_prs_parallel each eventually return, and the returned list holds
\* exactly one result per submitted repository, no result lost or
\* duplicated, also with more repositories than workers; a task that blocks
\* delays only its own slot: the other tasks of its pool still all finish.
C20_AllResultsCollected ==
  /\ <>(aStatus[1] = "done") => <>AnalyzeReturned
  /\ <>(fStatus[1] = "done") => <>FetchReturned
  /\ [](/\ NoDuplicate(StatsPaths) /\ NoDuplicate(PrsPaths)
        /\ AnalyzeReturned => OnePerRepo(StatsPaths)
        /\ FetchReturned => OnePerRepo(PrsPaths))
  /\ <>(\A j \in RepoIds \ {1} : aStatus[j] = "done")
  /\ <>(mainPc = "fetch") => <>(\A j \in RepoIds \ {1} : fStatus[j] = "done")

\* C20 witness: the task of the first repository is still running in the
\* second pool while the fifth repository, queued behind the four workers,
\* has finished and its result was collected.
C20_Witness ==
  /\ Len(repos) = FetchWorkers + 1
  /\ fStatus[1] = "running" /\ fStatus[Len(repos)] = "done"
  /\ \E k \in 1..Len(all_repo_prs) : all_repo_prs[k].repo_path = repos[Len(repos)]

====
